---- MODULE Spec2Model ----
(***************************************************************************)
(* A model of the Guard compiler (go / unsafeGuardFor, the refinement      *)
(* combinators, lazy) and of the worker runner's start, both of            *)
(* packages/platform-bun/src/internal/workerRunner.ts.                     *)
(*                                                                         *)
(* Three specifications share the module:                                  *)
(*   Spec        the compiler and the compiled guards' is()                *)
(*   SpecRefine  guards built from string / number by the bound            *)
(*               combinators, and mapSchema                                *)
(*   SpecWorker  the listener fiber of start() and the port's events       *)
(***************************************************************************)
EXTENDS Integers, Sequences, FiniteSets, TLC

VARIABLES
  \* ---- Spec: the compiler
  heap,         \* Guard instances made by go's body: guard id -> closure
  goCache,      \* the cache of go = S.memoize(...): Meta node -> guard id
  unsafeCache,  \* the cache of unsafeGuardFor: schema -> guard id
  getCache,     \* per lazy guard, the cache of get = S.memoize(f)
  bodyRuns,     \* Meta node -> how often go's body was entered for it
  bodyRets,     \* Meta node -> how often go's body returned a Guard for it
  fCalls,       \* Lazy node -> how often its f was invoked
  held,         \* the guards returned to the caller so far
  calls,        \* number of top-level calls made
  last,         \* what the last top-level call was and how it ended
  \* ---- SpecRefine: the combinators
  cur,          \* the guard built so far
  prev,         \* the guard the last combinator was applied to
  lastOp,       \* the last combinator applied
  mapped,       \* result of the last mapSchema(identity)(cur), if any
  refUnsafe,    \* unsafeGuardFor's cache, keyed by the guards given to it
  refGo,        \* go's cache, keyed by those guards' metas
  \* ---- SpecWorker: start()
  listeners,    \* the port's "message" listeners, in registration order
  errListeners, \* the port's "error" listeners
  nextFn,       \* identity of the next closure pair the fiber creates
  fiber,        \* "suspended" in Effect.async, or "retrying" after a failure
  queue,        \* the queue's content
  interrupts,   \* how often interruptAll was forked
  sent,         \* the tag-0 payloads the port delivered, in arrival order
  events        \* number of port events so far

compileVars ==
  <<heap, goCache, unsafeCache, getCache, bodyRuns, bodyRets, fCalls, held, calls, last>>
refineVars  == <<cur, prev, lastOp, mapped, refUnsafe, refGo>>
workerVars  == <<listeners, errListeners, nextFn, fiber, queue, interrupts, sent, events>>
vars == <<compileVars, refineVars, workerVars>>

\* ---------------------------------------------------------------- bounds
MaxBound  == 3   \* bound values given to minLength / maxLength / minimum / maximum
MaxRefine == 3   \* combinators applied in a row
MaxCalls  == 3   \* top-level unsafeGuardFor / is calls
MaxEvents == 4   \* port events

\* ------------------------------------------------------- runtime values
Undef   == [t |-> "undefined"]
Null    == [t |-> "null"]
Bool(b) == [t |-> "boolean", b |-> b]
Num(n)  == [t |-> "number", n |-> n]
Str(s)  == [t |-> "string", s |-> s]
Arr(e)  == [t |-> "array", elems |-> e]
Obj(p)  == [t |-> "object", props |-> p]

\* typeof u, as JavaScript reports it (null and arrays are "object")
TypeOf(v) == IF v.t \in {"null", "array", "object"} THEN "object" ELSE v.t

\* a.length
Length(v) == IF v.t = "string" THEN Len(v.s) ELSE Len(v.elems)

\* O.Option
None    == <<>>
Some(x) == <<x>>
IsSome(o) == o # <<>>

\* ------------------------------------------ Meta of the primitive shapes
PrimMeta(tag) ==
  [tag |-> tag, minLength |-> None, maxLength |-> None,
   minimum |-> None, maximum |-> None]

\* S.minLength(n)(schema) etc.: the refined Meta records the bound, replacing
\* one set before
S_minLength(n, meta) == [meta EXCEPT !.minLength = Some(n)]
S_maxLength(n, meta) == [meta EXCEPT !.maxLength = Some(n)]
S_minimum(n, meta)   == [meta EXCEPT !.minimum = Some(n)]
S_maximum(n, meta)   == [meta EXCEPT !.maximum = Some(n)]

\* ------------------------------------- guards over primitives (by value)
\* A guard built from string / number / boolean by the bound combinators is
\* the base type test and, in application order, the bound checks its nested
\* closures conjoin: (a) => self.is(a) && <check>.
make(meta, base, checks) == [meta |-> meta, base |-> base, checks |-> checks]

string  == make(PrimMeta("String"), "string", <<>>)
number  == make(PrimMeta("Number"), "number", <<>>)
boolean == make(PrimMeta("Boolean"), "boolean", <<>>)

minLengthWrong(n, self) ==
  make(S_minLength(n, self.meta), self.base,
       Append(self.checks, [op |-> "maxLength", bound |-> n]))
minLength(n, self) ==
  make(S_minLength(n, self.meta), self.base,
       Append(self.checks, [op |-> "minLength", bound |-> n]))
maxLength(n, self) ==
  make(S_maxLength(n, self.meta), self.base,
       Append(self.checks, [op |-> "maxLength", bound |-> n]))
minimum(n, self) ==
  make(S_minimum(n, self.meta), self.base,
       Append(self.checks, [op |-> "minimum", bound |-> n]))
maximum(n, self) ==
  make(S_maximum(n, self.meta), self.base,
       Append(self.checks, [op |-> "maximum", bound |-> n]))

CheckBound(c, v) ==
  CASE c.op = "minLength" -> Length(v) >= c.bound
    [] c.op = "maxLength" -> Length(v) <= c.bound
    [] c.op = "minimum"   -> v.n >= c.bound
    [] c.op = "maximum"   -> v.n <= c.bound

\* guard.is(v) of such a guard: self.is(a) && check, innermost first
RECURSIVE IsPrim(_, _)
IsPrim(g, v) ==
  IF g.checks = <<>>
  THEN TypeOf(v) = g.base
  ELSE /\ IsPrim([g EXCEPT !.checks = SubSeq(@, 1, Len(@) - 1)], v)
       /\ CheckBound(g.checks[Len(g.checks)], v)

\* go's cases "String", "Number" and "Boolean"
GoPrim(meta) ==
  CASE meta.tag = "String" ->
         LET o1 == IF IsSome(meta.minLength) THEN minLength(meta.minLength[1], string) ELSE string
         IN  IF IsSome(meta.maxLength) THEN maxLength(meta.maxLength[1], o1) ELSE o1
    [] meta.tag = "Number" ->
         LET o1 == IF IsSome(meta.minimum) THEN minimum(meta.minimum[1], number) ELSE number
         IN  IF IsSome(meta.maximum) THEN maximum(meta.maximum[1], o1) ELSE o1
    [] meta.tag = "Boolean" -> boolean

\* S.memoize: a Map from the argument to the result, filled when f returned
MemoHas(cache, key) == key \in DOMAIN cache
MemoSet(cache, key, val) == (key :> val) @@ cache



\* ------------------------------------------------------ objects, arrays
OwnKeys(v) == IF v.t = "object" THEN DOMAIN v.props ELSE {}
\* what every plain object ({}) inherits from Object.prototype
ObjectPrototypeKeys ==
  {"constructor", "toString", "valueOf", "hasOwnProperty", "isPrototypeOf",
   "propertyIsEnumerable", "toLocaleString", "__proto__"}
Inherited == [t |-> "function"]
\* a[key] of an object: its own property, else what the prototype gives,
\* else undefined
Prop(v, k) ==
  IF k \in OwnKeys(v) THEN v.props[k]
  ELSE IF k \in ObjectPrototypeKeys THEN Inherited ELSE Undef
\* a[i] of an array, i counted from 1 here: undefined past the end
At(v, i) == IF i \in 1..Len(v.elems) THEN v.elems[i] ELSE Undef

\* Object.keys lists own keys in creation order; the objects here are
\* created with their keys in this order
KeyOrder == <<"x", "y", "a", "toString", "_tag", "id">>
ObjectKeys(v) == SelectSeq(KeyOrder, LAMBDA k : k \in OwnKeys(v))

\* ------------------------------------------------------------ Meta graph
GuardAnn(k) == Obj(("_tag" :> Str("GuardAnnotation")) @@ ("id" :> Num(k)))
OtherAnn    == Obj(("_tag" :> Str("OtherAnnotation")))

isGuardAnnotation(u) ==
  /\ u.t # "null"
  /\ TypeOf(u) = "object"
  /\ "_tag" \in OwnKeys(u)
  /\ Prop(u, "_tag") = Str("GuardAnnotation")

NodeBase ==
  [tag |-> "", prim |-> PrimMeta(""), value |-> Undef, components |-> <<>>,
   rest |-> None, members |-> <<>>, fields |-> <<>>, index |-> None,
   f |-> "", metas |-> <<>>, annotations |-> <<>>]

MString(mn, mx) ==
  [NodeBase EXCEPT !.tag = "String",
     !.prim = [PrimMeta("String") EXCEPT !.minLength = mn, !.maxLength = mx]]
MNumber(mn, mx) ==
  [NodeBase EXCEPT !.tag = "Number",
     !.prim = [PrimMeta("Number") EXCEPT !.minimum = mn, !.maximum = mx]]
MBoolean == [NodeBase EXCEPT !.tag = "Boolean", !.prim = PrimMeta("Boolean")]
MOf(v) == [NodeBase EXCEPT !.tag = "Of", !.value = v]
MTuple(cs, r) == [NodeBase EXCEPT !.tag = "Tuple", !.components = cs, !.rest = r]
MUnion(ms) == [NodeBase EXCEPT !.tag = "Union", !.members = ms]
MStruct(fs, ix) == [NodeBase EXCEPT !.tag = "Struct", !.fields = fs, !.index = ix]
MLazy(target) == [NodeBase EXCEPT !.tag = "Lazy", !.f = target]
MApply(ms, anns) == [NodeBase EXCEPT !.tag = "Apply", !.metas = ms, !.annotations = anns]
Field(k, m) == [key |-> k, value |-> m]

\* The Meta nodes the calls are made on; a node's name is its identity.
\* f of a Lazy node returns the node named.
Graph ==
  "String"   :> MString(None, None) @@
  "Str1to3"  :> MString(Some(1), Some(3)) @@
  "Number"   :> MNumber(None, None) @@
  "Num1up"   :> MNumber(Some(1), None) @@
  "Boolean"  :> MBoolean @@
  "OfA"      :> MOf(Str("a")) @@
  \* Tuple{components: [String, Number], restElement: Boolean}
  "TupleR"   :> MTuple(<<"String", "Number">>, Some("Boolean")) @@
  \* two distinct nodes of one structure
  "Tuple"    :> MTuple(<<"String", "Number">>, None) @@
  "TupleB"   :> MTuple(<<"String", "Number">>, None) @@
  "Union"    :> MUnion(<<"OfA", "Num1up">>) @@
  \* Struct{fields: [x: Number], indexSignature: String}
  "StructI"  :> MStruct(<<Field("x", "Number")>>, Some("String")) @@
  "Struct"   :> MStruct(<<Field("x", "Number"), Field("y", "Str1to3")>>, None) @@
  \* L = Struct{a: Union[Boolean, L]}
  "LazyS"    :> MLazy("StructL") @@
  "StructL"  :> MStruct(<<Field("a", "UnionL")>>, None) @@
  "UnionL"   :> MUnion(<<"Boolean", "LazyS">>) @@
  \* L = Tuple[Boolean] with rest L
  "LazyT"    :> MLazy("TupleL") @@
  "TupleL"   :> MTuple(<<"Boolean">>, Some("LazyT")) @@
  \* L = L
  "LazySelf" :> MLazy("LazySelf") @@
  \* L = Union[L, String]
  "LazyU"    :> MLazy("UnionU") @@
  "UnionU"   :> MUnion(<<"LazyU", "String">>) @@
  \* Lazy resolving to an Apply without a GuardAnnotation
  "LazyBad"  :> MLazy("ApplyBad") @@
  "ApplyBad" :> MApply(<<"String">>, <<OtherAnn, Null>>) @@
  "ApplyNone" :> MApply(<<>>, <<>>) @@
  "ApplyOk"  :> MApply(<<"String", "Num1up">>, <<OtherAnn, GuardAnn(1), GuardAnn(2)>>) @@
  "ApplyIn"  :> MApply(<<"ApplyBad">>, <<GuardAnn(2)>>) @@
  "TupleBad" :> MTuple(<<"Boolean", "ApplyNone">>, None)

Nodes == DOMAIN Graph

\* Schema objects: unsafeGuardFor is keyed by the schema, go by schema.meta
Schema(name, m) == [schema |-> name, meta |-> m]

\* --------------------------------------------------------- Guard closures
\* What a Guard made in go's body closes over. node is the Meta it was made
\* for.
GuardBase ==
  [kind |-> "", node |-> "", prim |-> boolean, components |-> <<>>,
   rest |-> None, members |-> <<>>, fields |-> <<>>, index |-> None,
   provider |-> Undef, annotations |-> <<>>, guards |-> <<>>]

\* the module-level guards string, number, boolean
StringId  == <<"string", 0>>
NumberId  == <<"number", 0>>
BooleanId == <<"boolean", 0>>
PrimGuard(g) == [GuardBase EXCEPT !.kind = "prim", !.prim = g]
Singletons ==
  StringId :> PrimGuard(string) @@ NumberId :> PrimGuard(number) @@
  BooleanId :> PrimGuard(boolean)
SingletonOf(g) ==
  CASE g.base = "string" -> StringId
    [] g.base = "number" -> NumberId
    [] g.base = "boolean" -> BooleanId

\* the compiler's state, threaded through go and is
State0 ==
  [heap |-> Singletons, goCache |-> <<>>, getCache |-> <<>>,
   bodyRuns |-> [n \in Nodes |-> 0], bodyRets |-> [n \in Nodes |-> 0],
   fCalls |-> [n \in Nodes |-> 0]]

Ok(st, g)       == [st |-> st, status |-> "ok", g |-> g, gs |-> <<>>, err |-> ""]
OkAll(st, gs)   == [st |-> st, status |-> "ok", g |-> <<"", 0>>, gs |-> gs, err |-> ""]
\* throw new Error(`Missing "GuardAnnotation" for ${meta.symbol.description}`)
Throw(st, m)    == [st |-> st, status |-> "throw", g |-> <<"", 0>>, gs |-> <<>>, err |-> m]
\* a call chain that never returns (the stack overflows)
Overflow(st)    == [st |-> st, status |-> "overflow", g |-> <<"", 0>>, gs |-> <<>>, err |-> ""]

\* make(...) in go's body: a new Guard object
New(st, m, closure) ==
  LET id == <<m, st.bodyRuns[m]>>
  IN  Ok([st EXCEPT !.heap = (id :> [closure EXCEPT !.node = m]) @@ @], id)

\* fields[field.key] = guard on a plain object: a later key replaces
AssignField(fields, k, g) ==
  IF \E i \in 1..Len(fields) : fields[i].key = k
  THEN [i \in 1..Len(fields) |->
          IF fields[i].key = k THEN [key |-> k, guard |-> g] ELSE fields[i]]
  ELSE Append(fields, [key |-> k, guard |-> g])

RECURSIVE AssignFields(_, _, _)
AssignFields(fields, decl, gs) ==
  IF decl = <<>> THEN fields
  ELSE AssignFields(AssignField(fields, Head(decl).key, Head(gs)), Tail(decl), Tail(gs))

\* annotations[0] of the filtered annotations
FirstOfLast(anns) == anns[Len(anns)]
FirstOf(anns) == anns[1]

RECURSIVE go(_, _, _), goAll(_, _, _), goBody(_, _, _)

\* the rest of a computation, run when r returned and skipped when r threw
Then(r, K(_)) == IF r.status # "ok" THEN r ELSE K(r)

\* lazy(meta.symbol, () => go(meta.f())): f is not invoked here
lazyResolved(st, m, inner) ==
  LET n == New([st EXCEPT !.fCalls[m] = @ + 1], m, [GuardBase EXCEPT !.kind = "lazy"])
  IN  [n EXCEPT !.st.getCache = (n.g :> (Undef :> inner)) @@ @]
lazyEager(st, cstack, m) ==
  Then(go(st, cstack, Graph[m].f), LAMBDA r : lazyResolved(r.st, m, r.g))
lazy(st, cstack, m) ==
  LET n == New(st, m, [GuardBase EXCEPT !.kind = "lazy"])
  IN  [n EXCEPT !.st.getCache = (n.g :> <<>>) @@ @]

\* S.memoize's cache.set after f returned; a throw leaves the cache as it was
goStoreNothing(st, m, g) == st
goStore(st, m, g) == [st EXCEPT !.goCache = MemoSet(@, m, g)]

\* meta.metas.map(go): left to right, ended by the first throw
goAll(st, cstack, ms) ==
  IF ms = <<>> THEN OkAll(st, <<>>)
  ELSE Then(go(st, cstack, Head(ms)), LAMBDA r :
         Then(goAll(r.st, cstack, Tail(ms)), LAMBDA rs :
           OkAll(rs.st, <<r.g>> \o rs.gs)))

\* case "Apply"
goApply(st, cstack, m, node, annotations) ==
  IF Len(annotations) > 0
  THEN Then(goAll(st, cstack, node.metas), LAMBDA rs :
         New(rs.st, m,
           [GuardBase EXCEPT !.kind = "custom",
              !.provider = FirstOf(annotations),
              !.annotations = node.annotations,
              !.guards = rs.gs]))
  ELSE Throw(st, m)

\* cases "String", "Number", "Boolean": the module-level guard, or a new one
\* when a bound refines it
goPrimitive(st, m, out) ==
  IF out.checks = <<>> THEN Ok(st, SingletonOf(out)) ELSE New(st, m, PrimGuard(out))

\* case "Tuple"
goTuple(st, cstack, m, node) ==
  Then(goAll(st, cstack, node.components), LAMBDA cs :
    Then(goAll(cs.st, cstack, node.rest), LAMBDA r :
      New(r.st, m,
        [GuardBase EXCEPT !.kind = "tuple", !.components = cs.gs, !.rest = r.gs])))

\* case "Union"
goUnion(st, cstack, m, node) ==
  Then(goAll(st, cstack, node.members), LAMBDA ms :
    New(ms.st, m, [GuardBase EXCEPT !.kind = "union", !.members = ms.gs]))

\* case "Struct"
goStruct(st, cstack, m, node) ==
  Then(goAll(st, cstack, [i \in 1..Len(node.fields) |-> node.fields[i].value]), LAMBDA fs :
    Then(goAll(fs.st, cstack, node.index), LAMBDA ix :
      New(ix.st, m,
        [GuardBase EXCEPT !.kind = "struct",
           !.fields = AssignFields(<<>>, node.fields, fs.gs),
           !.index = ix.gs])))

\* switch (meta._tag)
goSwitch(st, cstack, m, node) ==
  CASE node.tag = "Apply" ->
         goApply(st, cstack, m, node, SelectSeq(node.annotations, isGuardAnnotation))
    [] node.tag \in {"String", "Number", "Boolean"} -> goPrimitive(st, m, GoPrim(node.prim))
    [] node.tag = "Of" -> New(st, m, [GuardBase EXCEPT !.kind = "of"])
    [] node.tag = "Tuple" -> goTuple(st, cstack, m, node)
    [] node.tag = "Union" -> goUnion(st, cstack, m, node)
    [] node.tag = "Struct" -> goStruct(st, cstack, m, node)
    [] node.tag = "Lazy" -> lazy(st, cstack, m)

\* the function go memoizes
goBody(st, cstack, m) ==
  goSwitch([st EXCEPT !.bodyRuns[m] = @ + 1], cstack, m, Graph[m])

\* go = S.memoize(body): cache.has(meta) ? cache.get(meta) : set and return
\* body(meta). cstack holds the nodes whose body is running: entering one of
\* them again, its result not yet in the cache, never returns.
go(st, cstack, m) ==
  IF MemoHas(st.goCache, m) THEN Ok(st, st.goCache[m])
  ELSE IF m \in cstack THEN Overflow(st)
  ELSE Then(goBody(st, cstack \cup {m}, m), LAMBDA r :
         Ok(goStore([r.st EXCEPT !.bodyRets[m] = @ + 1], m, r.g), r.g))

\* ------------------------------------------------------------ guard.is
IsRes(st, r, err) == [st |-> st, r |-> r, err |-> err]
Verdict(b) == IF b THEN "true" ELSE "false"

isUnknownIndexSignature(u) ==
  TypeOf(u) = "object" /\ u.t # "null" /\ u.t # "array"

\* key in fields, fields a plain object: own or inherited
InFields(fields, k) ==
  \/ \E i \in 1..Len(fields) : fields[i].key = k
  \/ k \in ObjectPrototypeKeys

\* The is() calls a Tuple guard makes on an array, in order:
\* components.every((guard, i) => guard.is(a[i])), then, with a rest
\* element, a.slice(components.length).every(rest.is)
TupleCallsNoSlice(h, a) ==
  [i \in 1..Len(h.components) |-> <<h.components[i], At(a, i)>>]
    \o (IF IsSome(h.rest)
        THEN [j \in 1..Len(a.elems) |-> <<h.rest[1], a.elems[j]>>]
        ELSE <<>>)
TupleCalls(h, a) ==
  [i \in 1..Len(h.components) |-> <<h.components[i], At(a, i)>>]
    \o (IF IsSome(h.rest)
        THEN LET rest == SubSeq(a.elems, Len(h.components) + 1, Len(a.elems))
             IN  [j \in 1..Len(rest) |-> <<h.rest[1], rest[j]>>]
        ELSE <<>>)

\* The is() calls a Struct guard makes on an object, in order: one per key
\* of fields, then, with an index signature, one per key of a not in fields
StructCalls(h, a) ==
  [i \in 1..Len(h.fields) |-> <<h.fields[i].guard, Prop(a, h.fields[i].key)>>]
    \o (IF IsSome(h.index)
        THEN LET keys == SelectSeq(ObjectKeys(a), LAMBDA k : ~InFields(h.fields, k))
             IN  [j \in 1..Len(keys) |-> <<h.index[1], a.props[keys[j]]>>]
        ELSE <<>>)

RECURSIVE is(_, _, _, _), isEvery(_, _, _), isSome(_, _, _)

\* get = S.memoize(f) of a lazy guard, f = () => go(meta.f())
getFor(st, gid, m) ==
  IF MemoHas(st.getCache[gid], Undef) THEN Ok(st, st.getCache[gid][Undef])
  ELSE Then(go([st EXCEPT !.fCalls[m] = @ + 1], {}, Graph[m].f), LAMBDA r :
         Ok([r.st EXCEPT !.getCache[gid] = MemoSet(@, Undef, r.g)], r.g))
get(st, gid) == getFor(st, gid, st.heap[gid].node)

\* every: the first call that is not true ends the loop
isEveryNext(r, stack, rest) ==
  IF r.r # "true" THEN r ELSE isEvery(r.st, stack, rest)
isEvery(st, stack, cs) ==
  IF cs = <<>> THEN IsRes(st, "true", "")
  ELSE isEveryNext(is(st, stack, Head(cs)[1], Head(cs)[2]), stack, Tail(cs))

\* some: the first call that is not false ends the loop
isSomeNext(r, stack, rest) ==
  IF r.r # "false" THEN r ELSE isSome(r.st, stack, rest)
isSome(st, stack, cs) ==
  IF cs = <<>> THEN IsRes(st, "false", "")
  ELSE isSomeNext(is(st, stack, Head(cs)[1], Head(cs)[2]), stack, Tail(cs))

\* (a) => get().is(a)
isLazy(r, stack, v) ==
  IF r.status # "ok" THEN IsRes(r.st, r.status, r.err)
  ELSE is(r.st, stack, r.g, v)

\* the predicate of guard h. stack holds the (lazy guard, value) calls in
\* progress: the same call made again inside itself repeats forever.
isOf(st, stack, gid, v, h) ==
  CASE h.kind = "prim" -> IsRes(st, Verdict(IsPrim(h.prim, v)), "")
    [] h.kind = "of" -> IsRes(st, Verdict(v = Graph[h.node].value), "")
    [] h.kind = "tuple" ->
         IF v.t # "array" THEN IsRes(st, "false", "")
         ELSE isEvery(st, stack, TupleCalls(h, v))
    [] h.kind = "union" ->
         isSome(st, stack, [i \in 1..Len(h.members) |-> <<h.members[i], v>>])
    [] h.kind = "struct" ->
         IF ~isUnknownIndexSignature(v) THEN IsRes(st, "false", "")
         ELSE isEvery(st, stack, StructCalls(h, v))
    [] h.kind = "lazy" ->
         IF <<gid, v>> \in stack THEN IsRes(st, "overflow", "")
         ELSE isLazy(get(st, gid), stack \cup {<<gid, v>>}, v)
    \* the guard a provider's guardFor returned; the providers here make
    \* (u) => guards.every((g) => g.is(u))
    [] h.kind = "custom" ->
         isEvery(st, stack, [i \in 1..Len(h.guards) |-> <<h.guards[i], v>>])

\* guard.is(v)
is(st, stack, gid, v) == isOf(st, stack, gid, v, st.heap[gid])

\* ------------------------------------------------- Spec: the compiler
State ==
  [heap |-> heap, goCache |-> goCache, getCache |-> getCache,
   bodyRuns |-> bodyRuns, bodyRets |-> bodyRets, fCalls |-> fCalls]

SetState(st) ==
  /\ heap' = st.heap /\ goCache' = st.goCache /\ getCache' = st.getCache
  /\ bodyRuns' = st.bodyRuns /\ bodyRets' = st.bodyRets /\ fCalls' = st.fCalls

NoGuard == <<"", 0>>
NoCall ==
  [op |-> "none", schema |-> "", node |-> "", guard |-> NoGuard,
   value |-> Undef, result |-> "", err |-> "", cached |-> FALSE]

InitCompile ==
  /\ heap = State0.heap /\ goCache = State0.goCache /\ getCache = State0.getCache
  /\ bodyRuns = State0.bodyRuns /\ bodyRets = State0.bodyRets
  /\ fCalls = State0.fCalls
  /\ unsafeCache = <<>> /\ held = {} /\ calls = 0 /\ last = NoCall

InitRefineIdle ==
  /\ cur = string /\ prev = string /\ lastOp = [name |-> "none", bound |-> 0]
  /\ mapped = None /\ refUnsafe = <<>> /\ refGo = <<>>

InitWorkerIdle ==
  /\ listeners = <<>> /\ errListeners = <<>> /\ nextFn = 1 /\ fiber = "idle"
  /\ queue = <<>> /\ interrupts = 0 /\ sent = <<>> /\ events = 0

\* unsafeGuardFor's cache miss: r is what go(schema.meta) did
Compiled(s, r) ==
  /\ SetState(r.st)
  /\ last' = [NoCall EXCEPT !.op = "unsafeGuardFor", !.schema = s.schema,
                !.node = s.meta, !.guard = r.g,
                !.result = IF r.status = "ok" THEN "guard" ELSE r.status,
                !.err = r.err]
  /\ IF r.status = "ok"
     THEN /\ unsafeCache' = MemoSet(unsafeCache, s.schema, r.g)
          /\ held' = held \cup {[schema |-> s.schema, node |-> s.meta, guard |-> r.g]}
     ELSE UNCHANGED <<unsafeCache, held>>

\* unsafeGuardFor(schema) = S.memoize((schema) => go(schema.meta))
CallUnsafeGuardFor(s) ==
  /\ calls < MaxCalls
  /\ calls' = calls + 1
  /\ IF MemoHas(unsafeCache, s.schema)
     THEN /\ last' = [NoCall EXCEPT !.op = "unsafeGuardFor", !.schema = s.schema,
                        !.node = s.meta, !.guard = unsafeCache[s.schema],
                        !.result = "guard", !.cached = TRUE]
          /\ held' = held \cup {[schema |-> s.schema, node |-> s.meta,
                                 guard |-> unsafeCache[s.schema]]}
          /\ UNCHANGED <<heap, goCache, getCache, bodyRuns, bodyRets, fCalls, unsafeCache>>
     ELSE Compiled(s, go(State, {}, s.meta))
  /\ UNCHANGED <<refineVars, workerVars>>

\* r is what guard.is(v) did
Validated(p, v, r) ==
  /\ SetState(r.st)
  /\ last' = [NoCall EXCEPT !.op = "is", !.schema = p.schema, !.node = p.node,
                !.guard = p.guard, !.value = v, !.result = r.r, !.err = r.err]

\* guard.is(v) on a guard the caller was given
CallIs(p, v) ==
  /\ calls < MaxCalls
  /\ calls' = calls + 1
  /\ Validated(p, v, is(State, {}, p.guard, v))
  /\ UNCHANGED <<unsafeCache, held, refineVars, workerVars>>

\* ---- Spec: schemas with Lazy and Apply nodes, and shared metas
Schemas ==
  {Schema("tuple", "Tuple"), Schema("tuple2", "Tuple"), Schema("tupleB", "TupleB"),
   Schema("lazyS", "LazyS"), Schema("structL", "StructL"), Schema("lazyT", "LazyT"),
   Schema("lazySelf", "LazySelf"), Schema("lazyU", "LazyU"),
   Schema("lazyBad", "LazyBad"), Schema("applyBad", "ApplyBad"),
   Schema("applyNone", "ApplyNone"), Schema("applyOk", "ApplyOk"),
   Schema("applyIn", "ApplyIn"), Schema("tupleBad", "TupleBad")}

Values ==
  {Undef, Bool(TRUE), Str("a"), Num(1),
   Obj("a" :> Bool(TRUE)), Obj("a" :> Obj("a" :> Bool(TRUE))),
   Obj("a" :> Obj("a" :> Num(1))),
   Arr(<<Bool(TRUE)>>), Arr(<<Bool(TRUE), Arr(<<Bool(TRUE)>>)>>),
   Arr(<<Bool(TRUE), Num(1)>>), Arr(<<Str("a"), Num(1)>>)}

Compile == \E s \in Schemas : CallUnsafeGuardFor(s)
Validate == \E p \in held : \E v \in Values : CallIs(p, v)

Init == InitCompile /\ InitRefineIdle /\ InitWorkerIdle
Next == Compile \/ Validate
Spec == Init /\ [][Next]_vars

\* ---- SpecShapes: Tuple, Struct, Union and bounded primitives on many values
ShapeSchemas ==
  {Schema("tupleR", "TupleR"), Schema("tuple", "Tuple"),
   Schema("structI", "StructI"), Schema("struct", "Struct"),
   Schema("union", "Union"), Schema("str1to3", "Str1to3")}

ShapeElems == {Str("a"), Num(1), Bool(TRUE), Undef}
ShapeProps == {Num(1), Num(2), Str("ok"), Str("abcd")}
ShapeArrays ==
  {Arr(e) : e \in UNION {[1..n -> ShapeElems] : n \in 0..3}}
    \cup {Arr(<<Str("a"), Num(1), Bool(TRUE), Bool(FALSE)>>),
          Arr(<<Str("a"), Num(1), Num(2)>>)}
ShapeObjects ==
  {Obj(p) : p \in UNION {[ks -> ShapeProps] : ks \in SUBSET {"x", "y", "toString"}}}
ShapeValues ==
  {Undef, Null, Bool(TRUE), Num(0), Num(1), Str(""), Str("a"), Str("abcd")}
    \cup ShapeArrays \cup ShapeObjects

CompileShape == \E s \in ShapeSchemas : CallUnsafeGuardFor(s)
ValidateShape == \E p \in held : \E v \in ShapeValues : CallIs(p, v)

NextShapes == CompileShape \/ ValidateShape
SpecShapes == Init /\ [][NextShapes]_vars
\* ------------------------------------------------ SpecRefine: the values
AllStrings == <<"", "a", "ab", "abc", "abcd", "abcde", "abcdef">>
RefStrings == {AllStrings[i] : i \in 1..(MaxBound + 2)}
RefValues ==
  {Undef, Null, Bool(TRUE), Arr(<<>>), Obj(<<>>)}
    \cup {Num(n) : n \in 0..(MaxBound + 1)}
    \cup {Str(s) : s \in RefStrings}

Bounds == 0..MaxBound

\* unsafeGuardFor(guard) in SpecRefine. Every guard here is its own object
\* with its own meta object; the record stands for the object's identity.
MetaKey(g) == [metaOf |-> g]
RefGo(cache, g) ==
  IF MemoHas(cache, MetaKey(g))
  THEN [cache |-> cache, guard |-> cache[MetaKey(g)]]
  ELSE LET out == GoPrim(g.meta)
       IN  [cache |-> MemoSet(cache, MetaKey(g), out), guard |-> out]

InitRefine ==
  /\ cur \in {string, number} /\ prev = cur /\ lastOp = [name |-> "none", bound |-> 0] /\ mapped = None
  /\ refUnsafe = <<>> /\ refGo = <<>>
  /\ InitCompile /\ InitWorkerIdle

Refined(op, n, g) ==
  /\ Len(cur.checks) < MaxRefine
  /\ cur' = g /\ prev' = cur /\ lastOp' = [name |-> op, bound |-> n]
  /\ mapped' = None
  /\ UNCHANGED <<refUnsafe, refGo, compileVars, workerVars>>

\* minLength / maxLength take a Guard<A extends { length: number }>
ApplyMinLength ==
  \E n \in Bounds : cur.base = "string" /\ Refined("minLength", n, minLength(n, cur))
ApplyMaxLength ==
  \E n \in Bounds : cur.base = "string" /\ Refined("maxLength", n, maxLength(n, cur))
\* minimum / maximum take a Guard<A extends number>
ApplyMinimum ==
  \E n \in Bounds : cur.base = "number" /\ Refined("minimum", n, minimum(n, cur))
ApplyMaximum ==
  \E n \in Bounds : cur.base = "number" /\ Refined("maximum", n, maximum(n, cur))

\* mapSchema(f)(cur) with f the identity: unsafeGuardFor(cur)
MapSchemaIdentity ==
  /\ IF MemoHas(refUnsafe, cur)
     THEN /\ mapped' = Some(refUnsafe[cur])
          /\ UNCHANGED <<refUnsafe, refGo>>
     ELSE LET r == RefGo(refGo, cur)
          IN  /\ mapped' = Some(r.guard)
              /\ refGo' = r.cache
              /\ refUnsafe' = MemoSet(refUnsafe, cur, r.guard)
  /\ lastOp' = [name |-> "mapSchema", bound |-> 0]
  /\ UNCHANGED <<cur, prev, compileVars, workerVars>>

NextRefine ==
  \/ ApplyMinLength
  \/ ApplyMaxLength
  \/ ApplyMinimum
  \/ ApplyMaximum
  \/ MapSchemaIdentity

SpecRefine == InitRefine /\ [][NextRefine]_vars


\* ------------------------------------------------ SpecWorker: start()
\* The fiber forked by start() runs Effect.async's register function, which
\* makes a new onMessage / onError closure pair and adds both to the port; the
\* effect register returns (removing the pair) is the canceller, run when the
\* fiber is interrupted. onError resumes the fiber with a failure, and
\* Effect.retryWhile(() => true) runs the Effect.async again.
InitWorker ==
  /\ listeners = <<>> /\ errListeners = <<>> /\ nextFn = 1 /\ fiber = "ready"
  /\ queue = <<>> /\ interrupts = 0 /\ sent = <<>> /\ events = 0
  /\ InitCompile /\ InitRefineIdle

\* port.addEventListener("message", onMessage); ("error", onError)
Register ==
  /\ fiber = "ready"
  /\ listeners' = Append(listeners, nextFn)
  /\ errListeners' = Append(errListeners, nextFn)
  /\ nextFn' = nextFn + 1
  /\ fiber' = "suspended"
  /\ UNCHANGED <<queue, interrupts, sent, events, compileVars, refineVars>>

\* onMessage, once per registered listener: queue.unsafeOffer(message[1])
RECURSIVE OfferAll(_, _, _)
OfferAll(q, n, payload) ==
  IF n = 0 THEN q ELSE OfferAll(Append(q, payload), n - 1, payload)

\* a "message" event with data [0, payload]; the payload is the event's number
MessageRequest ==
  /\ events < MaxEvents
  /\ events' = events + 1
  /\ queue' = OfferAll(queue, Len(listeners), events + 1)
  /\ sent' = IF Len(listeners) > 0 THEN Append(sent, events + 1) ELSE sent
  /\ UNCHANGED <<listeners, errListeners, nextFn, fiber, interrupts,
                 compileVars, refineVars>>

\* a "message" event with another tag: every listener forks interruptAll
MessageOther ==
  /\ events < MaxEvents
  /\ events' = events + 1
  /\ interrupts' = interrupts + Len(listeners)
  /\ UNCHANGED <<listeners, errListeners, nextFn, fiber, queue, sent,
                 compileVars, refineVars>>

\* the interrupt reaches the suspended fiber: the canceller removes the
\* closure pair of the running Effect.async, and the fiber ends
Interrupted ==
  /\ interrupts > 0
  /\ fiber = "suspended"
  /\ listeners' = SelectSeq(listeners, LAMBDA fn : fn # nextFn - 1)
  /\ errListeners' = SelectSeq(errListeners, LAMBDA fn : fn # nextFn - 1)
  /\ fiber' = "interrupted"
  /\ UNCHANGED <<nextFn, queue, interrupts, sent, events, compileVars, refineVars>>

\* an "error" event: every onError calls its resume; the one of the running
\* Effect.async fails the fiber, which retries
ErrorEvent ==
  /\ events < MaxEvents
  /\ events' = events + 1
  /\ fiber' = IF fiber = "suspended" /\ (nextFn - 1) \in {errListeners[i] : i \in 1..Len(errListeners)}
              THEN "ready" ELSE fiber
  /\ UNCHANGED <<listeners, errListeners, nextFn, queue, interrupts, sent,
                 compileVars, refineVars>>

NextWorker == Register \/ MessageRequest \/ MessageOther \/ Interrupted \/ ErrorEvent
SpecWorker == InitWorker /\ [][NextWorker]_vars

\* ------------------------------------- claims about the combinators
Accepted(g) == {v \in RefValues : IsPrim(g, v)}

\* C7 (as stated): minLength(n)(g) accepts a strict subset of what g accepts.
C7_StrictSubset ==
  lastOp.name = "minLength" =>
    /\ Accepted(cur) \subseteq Accepted(prev)
    /\ Accepted(cur) # Accepted(prev)

\* C7 (amended): minLength(n)(g) accepts exactly the values g accepts whose
\* length is >= n: a subset of what g accepts, strict exactly when g accepts
\* a value shorter than n; and for n <= m, minLength(m)(g) accepts a subset
\* of what minLength(n)(g) accepts.
C7_Monotone ==
  /\ lastOp.name = "minLength" =>
       /\ Accepted(cur) = {v \in Accepted(prev) : Length(v) >= lastOp.bound}
       /\ (Accepted(cur) # Accepted(prev)) <=>
            (\E v \in Accepted(prev) : Length(v) < lastOp.bound)
  /\ cur.base = "string" =>
       \A n \in Bounds : \A m \in n..MaxBound :
         Accepted(minLength(m, cur)) \subseteq Accepted(minLength(n, cur))

\* a minLength that did shrink the accepted set, and one that could not
C7_Witness ==
  /\ lastOp.name = "minLength"
  /\ lastOp.bound = 2
  /\ Str("ab") \in Accepted(cur)
  /\ Str("a") \in Accepted(prev) \ Accepted(cur)

\* C9: for a guard built by the bound combinators, g.is(v) = go(g.meta).is(v)
\* for every v, and mapSchema(identity)(g) accepts exactly what g accepts.
C9_MetaPredicateConsistent ==
  /\ \A v \in RefValues : IsPrim(cur, v) = IsPrim(GoPrim(cur.meta), v)
  /\ IsSome(mapped) => \A v \in RefValues : IsPrim(mapped[1], v) = IsPrim(cur, v)

\* ---------------------------------------- claims about the compiler
\* whether guard g accepts v, in the current state
Accepts(g, v) == is(State, {}, g, v).r = "true"

DeclaredKeys(node) == {node.fields[i].key : i \in 1..Len(node.fields)}

StructConforms(g, v) ==
  LET node == Graph[heap[g].node]
  IN  /\ v.t = "object"
      /\ \A i \in 1..Len(node.fields) :
           Accepts(goCache[node.fields[i].value],
                   IF node.fields[i].key \in OwnKeys(v)
                   THEN v.props[node.fields[i].key] ELSE Undef)
      /\ IsSome(node.index) =>
           \A k \in OwnKeys(v) \ DeclaredKeys(node) :
             Accepts(goCache[node.index[1]], v.props[k])

\* C1: a Struct guard accepts v exactly when v is a non-null, non-array
\* object, every declared field's guard accepts v[key], and, with an index
\* signature, every undeclared own key of v (whatever its name) has a value
\* the index-signature guard accepts.
C1_StructIs ==
  (last.op = "is" /\ heap[last.guard].kind = "struct") =>
    ((last.result = "true") <=> StructConforms(last.guard, last.value))

TupleConforms(g, v) ==
  LET node == Graph[heap[g].node]
      n    == Len(node.components)
  IN  /\ v.t = "array"
      /\ \A i \in 1..n :
           Accepts(goCache[node.components[i]],
                   IF i <= Len(v.elems) THEN v.elems[i] ELSE Undef)
      /\ IsSome(node.rest) =>
           \A j \in (n + 1)..Len(v.elems) : Accepts(goCache[node.rest[1]], v.elems[j])

\* v cut to the tuple's fixed components
Truncated(g, v) ==
  LET n == Len(Graph[heap[g].node].components)
  IN  IF v.t = "array" /\ Len(v.elems) > n THEN Arr(SubSeq(v.elems, 1, n)) ELSE v

\* C2: a Tuple guard accepts v exactly when v is an array, each component
\* guard accepts v[i] (undefined past the end) and, with a rest element,
\* the rest guard accepts every element past the components; without one
\* the elements past the components do not change the verdict. With
\* [String, Number] and rest Boolean: ["a",1,true,false] is accepted,
\* ["a",1,2] and ["a"] are rejected.
C2_TupleIs ==
  (last.op = "is" /\ heap[last.guard].kind = "tuple") =>
    /\ last.result \in {"true", "false"}
    /\ (last.result = "true") <=> TupleConforms(last.guard, last.value)
    /\ ~IsSome(Graph[last.node].rest) =>
         (last.result = "true") <=> Accepts(last.guard, Truncated(last.guard, last.value))
    /\ last.node = "TupleR" =>
         /\ last.value = Arr(<<Str("a"), Num(1), Bool(TRUE), Bool(FALSE)>>)
              => last.result = "true"
         /\ last.value \in {Arr(<<Str("a"), Num(1), Num(2)>>), Arr(<<Str("a")>>)}
              => last.result = "false"

C2_Witness ==
  /\ last.op = "is"
  /\ last.node = "TupleR"
  /\ last.value = Arr(<<Str("a"), Num(1), Bool(TRUE), Bool(FALSE)>>)
  /\ last.result = "true"

IsGA(a) == \E k \in 1..2 : a = GuardAnn(k)
HasGA(node) == \E i \in 1..Len(node.annotations) : IsGA(node.annotations[i])
FirstGA(node) ==
  node.annotations[CHOOSE i \in 1..Len(node.annotations) :
    /\ IsGA(node.annotations[i])
    /\ \A j \in 1..(i - 1) : ~IsGA(node.annotations[j])]

\* the nodes go(m) compiles on the way: m and what it reaches without
\* passing a Lazy node
Children(m) ==
  LET node == Graph[m]
  IN  {node.components[i] : i \in 1..Len(node.components)}
        \cup {node.rest[i] : i \in 1..Len(node.rest)}
        \cup {node.members[i] : i \in 1..Len(node.members)}
        \cup {node.fields[i].value : i \in 1..Len(node.fields)}
        \cup {node.index[i] : i \in 1..Len(node.index)}
        \cup {node.metas[i] : i \in 1..Len(node.metas)}
Resolved(m) == IF Graph[m].tag = "Lazy" THEN {Graph[m].f} ELSE {}
\* the children given the very value the node itself was given
SameValue(m) ==
  LET node == Graph[m]
  IN  {node.members[i] : i \in 1..Len(node.members)}
        \cup {node.metas[i] : i \in 1..Len(node.metas)}
        \cup Resolved(m)

RECURSIVE Closure(_, _, _)
Closure(S, Succ(_), k) ==
  IF k = 0 THEN S
  ELSE Closure(S \cup UNION {Succ(n) : n \in S}, Succ, k - 1)

CompiledBy(m) == Closure({m}, Children, Cardinality(Nodes))
Compilable(m) ==
  \A n \in CompiledBy(m) : Graph[n].tag = "Apply" => HasGA(Graph[n])

\* C3: compiling an Apply node without a GuardAnnotation throws the
\* missing-annotation error for that node and caches no Guard; with one, the
\* Guard is what the first GuardAnnotation's guardFor is given all of the
\* node's annotations and the guards of meta.metas in order (a meta.metas
\* node that does not compile throws its own error first).
C3_Apply ==
  \A m \in Nodes : Graph[m].tag = "Apply" =>
    LET node == Graph[m]
    IN  /\ ~HasGA(node) =>
             /\ ~MemoHas(goCache, m)
             /\ bodyRets[m] = 0
             /\ (last.op = "unsafeGuardFor" /\ last.node = m) =>
                  (last.result = "throw" /\ last.err = m)
        /\ (HasGA(node) /\ MemoHas(goCache, m)) =>
             /\ heap[goCache[m]].kind = "custom"
             /\ heap[goCache[m]].provider = FirstGA(node)
             /\ heap[goCache[m]].annotations = node.annotations
             /\ heap[goCache[m]].guards = [i \in 1..Len(node.metas) |-> goCache[node.metas[i]]]
        /\ (HasGA(node) /\ last.op = "unsafeGuardFor" /\ last.node = m) =>
             IF Compilable(m)
             THEN last.result = "guard" /\ last.guard = goCache[m]
             ELSE /\ last.result = "throw"
                  /\ last.err \in CompiledBy(m) /\ ~HasGA(Graph[last.err])

C3_Witness ==
  /\ last.op = "unsafeGuardFor"
  /\ last.node = "ApplyOk"
  /\ last.result = "guard"
  /\ heap[last.guard].provider = GuardAnn(1)
  /\ Len(heap[last.guard].guards) = 2

\* C4: is() of a Guard that go returned never throws the missing-annotation
\* error.
C4_IsNeverThrows == last.op = "is" => last.result # "throw"

Unguarded(l) ==
  Graph[l].tag = "Lazy" /\ l \in Closure(SameValue(l), SameValue, Cardinality(Nodes))
AllEdges(m) == Children(m) \cup Resolved(m)
ReachesUnguarded(m) ==
  \E l \in Closure({m}, AllEdges, Cardinality(Nodes)) : Unguarded(l)

C8_FOnce ==
  /\ (calls = 1 /\ last.op = "unsafeGuardFor") => \A m \in Nodes : fCalls[m] = 0
  /\ \A m \in Nodes : fCalls[m] <= 1

\* C10: at most one onMessage listener is registered at any time, every
\* delivered tag-0 message is offered to the queue exactly once and in
\* arrival order, and no other message is offered.
C10_OneListener ==
  /\ Len(listeners) <= 1
  /\ queue = sent
====
